---- MODULE Spec2Model ----
(***************************************************************************)
(* Realtime core of the chat backend: the Socket.IO authentication         *)
(* middleware (socketAuth), the connection handler of server.js, the       *)
(* message handlers (handleLoadMessages, handleMessageSend,                *)
(* handleTypingIndicator) and the presence writes to the User collection.  *)
(*                                                                         *)
(* Node runs every handler to its next await without preemption; at an     *)
(* await the handler is suspended and other handlers run.  Each await of   *)
(* a store operation is therefore two steps here: the operation taking     *)
(* effect in the store, and the handler resuming with its result.          *)
(***************************************************************************)
EXTENDS Integers, Sequences, FiniteSets, TLC

\* ---------------------------------------------------------------- bounds
MaxConns  == 2      \* connection attempts in one behaviour
MaxSends  == 1      \* message:send events in one behaviour
MaxTyping == 1      \* typing events in one behaviour
MaxTicks  == 1      \* clock ticks (milliseconds) in one behaviour
MaxChatSends == 2   \* message:send events in one behaviour of SpecChat
MaxReqs   == 2      \* HTTP requests to a protected route in one behaviour
MaxLogouts == 2     \* calls of the client's logout() in one behaviour
MaxAuthCalls == 3   \* calls of AuthProvider's login and logout in one behaviour
MaxDbCalls == 3     \* calls of connectDB in one behaviour

\* ------------------------------------------------------ program constants
HistoryLimit     == 50      \* .limit(50)
MaxContentLength == 1000    \* content.length > 1000, maxlength: [1000, ...]

Conns == 1..MaxConns

\* ------------------------------------------------------------ User model
\* The users of the directory: _id and username of each document.
Users == {"u1", "u2"}
Username(u) == IF u = "u1" THEN "alice" ELSE "bob"
UserDoc(u) == [_id |-> u, username |-> Username(u)]
NoUser == [_id |-> "", username |-> ""]

\* --------------------------------------------------------------- strings
\* A string is a sequence of runs [ch, n]: n >= 1 copies of one character
\* class, "ws" (whitespace) or "a" (anything else); adjacent runs differ.
Run(ch, n) == [ch |-> ch, n |-> n]

RECURSIVE StrLen(_)
StrLen(s) == IF s = <<>> THEN 0 ELSE Head(s).n + StrLen(Tail(s))

RECURSIVE TrimStart(_)
TrimStart(s) ==
    IF s # <<>> /\ Head(s).ch = "ws" THEN TrimStart(Tail(s)) ELSE s

RECURSIVE TrimEnd(_)
TrimEnd(s) ==
    IF s # <<>> /\ s[Len(s)].ch = "ws"
        THEN TrimEnd(SubSeq(s, 1, Len(s) - 1))
        ELSE s

\* String.prototype.trim
Trim(s) == TrimEnd(TrimStart(s))

\* ------------------------------------------------------------- payloads
\* The data argument of a message:send event: no payload at all, or an
\* object whose content property is missing, a non-string, or a string.
NoPayload      == [kind |-> "none"]
Payload(v)     == [kind |-> "object", content |-> v]
Undefined      == [type |-> "undefined"]
Number(truthy) == [type |-> "number", truthy |-> truthy]
Str(s)         == [type |-> "string", runs |-> s]

Strings ==
    { <<>>,
      <<Run("ws", 3)>>,
      <<Run("a", 2)>>,
      <<Run("ws", 1), Run("a", 2), Run("ws", 1)>>,
      <<Run("a", MaxContentLength)>>,
      <<Run("a", MaxContentLength + 1)>>,
      <<Run("ws", 1), Run("a", MaxContentLength)>>,
      <<Run("ws", MaxContentLength + 1)>> }

Payloads ==
    {NoPayload, Payload(Undefined), Payload(Number(TRUE)), Payload(Number(FALSE))}
        \cup {Payload(Str(s)) : s \in Strings}

\* --------------------------------------------------------------- tokens
\* handshake.auth.token: absent, or a JWT that is malformed, badly signed,
\* expired, or valid with a subject id.  "ghost" is a well-formed id of no
\* user, "badid" an id that cannot be cast to an ObjectId.
Subjects == Users \cup {"ghost", "badid"}
Tokens ==
    { [kind |-> k, sub |-> ""] : k \in {"missing", "malformed", "badsig"} }
        \cup { [kind |-> k, sub |-> s] : k \in {"expired", "valid"}, s \in Subjects }

\* (mutant) jwt.verify with ignoreExpiration: an expired token is decoded
jwtVerify_ignoreExpiration(tok) ==
    CASE tok.kind \in {"valid", "expired"} ->
                [ok |-> TRUE, id |-> tok.sub, error |-> ""]
      [] OTHER  -> [ok |-> FALSE, id |-> "", error |-> "JsonWebTokenError"]

\* (mutant) an expired token reported as any other JsonWebTokenError
jwtVerify_expiredAsInvalid(tok) ==
    CASE tok.kind = "valid" -> [ok |-> TRUE, id |-> tok.sub, error |-> ""]
      [] OTHER              -> [ok |-> FALSE, id |-> "", error |-> "JsonWebTokenError"]

\* jwt.verify(token, secret): the decoded payload, or the error it throws.
jwtVerify(tok) ==
    CASE tok.kind = "valid"   -> [ok |-> TRUE, id |-> tok.sub, error |-> ""]
      [] tok.kind = "expired" -> [ok |-> FALSE, id |-> "", error |-> "TokenExpiredError"]
      [] OTHER                -> [ok |-> FALSE, id |-> "", error |-> "JsonWebTokenError"]

\* ---------------------------------------------------------- Message model
\* new Message({...}): Mongoose assigns _id when the document is built.
NewMessage(id, u, content, ts) ==
    [_id |-> id, userId |-> u._id, username |-> u.username,
     content |-> content, timestamp |-> ts]

\* The validators of messageSchema, run by save() on the trimmed fields.
ValidMessage(doc) ==
    /\ doc.userId # ""
    /\ doc.username # ""
    /\ doc.content # <<>>
    /\ StrLen(doc.content) <= MaxContentLength

\* The stored document: the string fields trimmed by the schema, and
\* createdAt and updatedAt added by timestamps: true.
Persisted(doc, t) ==
    [_id |-> doc._id, userId |-> doc.userId, username |-> doc.username,
     content |-> Trim(doc.content), timestamp |-> doc.timestamp,
     createdAt |-> t, updatedAt |-> t]

\* .select('_id userId username content timestamp createdAt')
Select(rec) ==
    [_id |-> rec._id, userId |-> rec.userId, username |-> rec.username,
     content |-> rec.content, timestamp |-> rec.timestamp,
     createdAt |-> rec.createdAt]

\* .sort({ timestamp: 1 }): ascending send time.  MongoDB leaves the order of
\* documents with equal keys open; tie is the order it happens to use.
TieOrders == {"natural", "reverse"}
RECURSIVE SortedInsert(_, _, _)
SortedInsert(sorted, doc, tie) ==
    IF sorted = <<>> THEN <<doc>>
    ELSE LET last == sorted[Len(sorted)] IN
         IF \/ last.timestamp < doc.timestamp
            \/ last.timestamp = doc.timestamp /\ tie = "natural"
           THEN Append(sorted, doc)
           ELSE Append(SortedInsert(SubSeq(sorted, 1, Len(sorted) - 1), doc, tie), last)

RECURSIVE SortByTimestamp(_, _)
SortByTimestamp(s, tie) ==
    IF s = <<>> THEN <<>>
    ELSE SortedInsert(SortByTimestamp(SubSeq(s, 1, Len(s) - 1), tie), s[Len(s)], tie)

\* (mutant) the query without its limit
Limit_none(s, n) == s

\* .limit(n)
Limit(s, n) == IF Len(s) <= n THEN s ELSE SubSeq(s, 1, n)

\* Message.find().sort({ timestamp: 1 }).limit(50).select(...).lean()
FindMessages(docs, tie) ==
    LET found == Limit(SortByTimestamp(docs, tie), HistoryLimit)
    IN  [k \in 1..Len(found) |-> Select(found[k])]

\* ----------------------------------------------------------------- events
HistoryEvent(batch) == [event |-> "message:history", data |-> batch]
ErrorEvent(msg)     == [event |-> "message:error", data |-> [message |-> msg]]
\* (mutant) createdAt of the payload taken from the send time
NewEvent_sendTimeAsCreation(saved) ==
    [event |-> "message:new",
     data  |-> [_id |-> saved._id, userId |-> saved.userId,
                username |-> saved.username, content |-> saved.content,
                timestamp |-> saved.timestamp, createdAt |-> saved.timestamp]]
NewEvent(saved) ==
    [event |-> "message:new",
     data  |-> [_id |-> saved._id, userId |-> saved.userId,
                username |-> saved.username, content |-> saved.content,
                timestamp |-> saved.timestamp, createdAt |-> saved.createdAt]]
TypingEvent(u, isTyping) ==
    [event |-> "user:typing",
     data  |-> [userId |-> u._id, username |-> u.username, isTyping |-> isTyping]]

\* ------------------------------------------------------------------ state
VARIABLES
    now,        \* the server clock, in milliseconds (new Date())
    status,     \* User collection: status of each user
    lastSeen,   \* User collection: lastSeen of each user
    store,      \* Message collection, in insertion order
    nextId,     \* the next _id a new document gets
    pc,         \* where each connection is in its life
    open,       \* whether the client still holds the transport open
    user,       \* socket.user of each connection
    reject,     \* the Error passed to next() for each connection, or ""
    handlers,   \* the events each socket has a listener for
    hist,       \* the handleLoadMessages call of each socket
    sends,      \* the handleMessageSend calls suspended at message.save()
    discAt,     \* the new Date() of each pending disconnect update
    inbox,      \* the events each connected client has received, in order
    nSends,     \* message:send events handled so far
    nTyping,    \* typing events handled so far
    http,       \* the requests to a route behind protect: req and res of each
    storage,    \* browser: localStorage item 'auth_token'
    fetches,    \* browser: the logout API requests made, in order
    logouts,    \* browser: the calls of utils/auth logout()
    auth,       \* AuthProvider: the React state (user, isLoading)
    mounted,    \* AuthProvider: whether the mount effect has run
    ctx,        \* AuthProvider: the context value of the last render
    nAuth,      \* AuthProvider: login and logout calls so far
    db,         \* mongoose.connection: readyState and the URI it was opened with
    dbCalls,    \* the calls of connectDB
    nextCalls   \* the calls of next socketAuth has made for each connection

vars == <<now, status, lastSeen, store, nextId, pc, open, user, reject,
          handlers, hist, sends, discAt, inbox, nSends, nTyping, http,
          storage, fetches, logouts, auth, mounted, ctx, nAuth, db, dbCalls,
          nextCalls>>

\* The browser side.
clientVars == <<storage, fetches, logouts, auth, mounted, ctx, nAuth>>

\* The database connection.
dbVars == <<db, dbCalls>>

\* What the realtime core leaves alone.
extVars == <<http, clientVars, dbVars>>

connVars  == <<pc, open, user, reject, handlers, discAt>>
userVars  == <<status, lastSeen>>
countVars == <<nSends, nTyping>>

NoHist == [st |-> "none", batch |-> <<>>]
NoDate == 0

\* The sockets of the namespace: those io.emit and socket.broadcast reach.
Connected == {c \in Conns : pc[c] = "connected"}

\* The Message collection when the server starts: n messages sent one
\* millisecond apart, the last two saved in the opposite order (the send time
\* is taken before the save, so concurrent sends can be stored out of order).
StoredMessage(i, ts) == Persisted(NewMessage(i, UserDoc("u1"), <<Run("a", 1)>>, ts), ts)
StoredMessages(n) ==
    [i \in 1..n |-> StoredMessage(i, IF i = n - 1 THEN n ELSE IF i = n THEN n - 1 ELSE i)]
StartTime == HistoryLimit + 2

\* ---------------------------------------------------------- HTTP requests
Reqs == 1..MaxReqs

\* The Authorization header: absent, or a string, kept as the words that
\* split(' ') gives.  A word is a piece of text or a JWT.
NoTok == [kind |-> "none", sub |-> ""]
Word(text) == [text |-> text, tok |-> NoTok]
JwtWord(tok) == [text |-> "jwt", tok |-> tok]
NoHeader == [present |-> FALSE, words |-> <<>>]
Header(words) == [present |-> TRUE, words |-> words]

Headers ==
    { NoHeader,
      Header(<<Word("Bearer")>>),
      Header(<<Word("Bearer"), Word("")>>),
      Header(<<Word("Bearer"), Word("invalid-token")>>),
      Header(<<Word("InvalidFormat"), Word("token")>>),
      Header(<<Word("bearer"), JwtWord([kind |-> "valid", sub |-> "u1"])>>),
      Header(<<JwtWord([kind |-> "valid", sub |-> "u1"])>>) }
        \cup { Header(<<Word("Bearer"), JwtWord(tok)>>) :
                    tok \in {t \in Tokens : t.kind # "missing"} }

\* req.user: not assigned, null (findById found no document), or a document.
NullUser == [_id |-> "null", username |-> ""]

NoResponse == [code |-> 0, message |-> ""]
NewRequest ==
    [st |-> "new", header |-> NoHeader, decoded |-> "", user |-> NoUser,
     res |-> NoResponse, handler |-> FALSE]

\* ---------------------------------------------------------------- mongoose
\* mongoose.connection.readyState
Disconnected  == 0
IsConnected   == 1
Connecting    == 2
Disconnecting == 3

\* The argument of connectDB: nothing, the empty string, or a URI.
NoUri == [given |-> FALSE, text |-> ""]
Uri(text) == [given |-> TRUE, text |-> text]
Uris == {NoUri, Uri(""), Uri("mongodb://host/test"), Uri("mongodb://host/test2")}

DbCallIds == 1..MaxDbCalls
NoDbCall == [st |-> "idle", uri |-> NoUri, result |-> NoUri, error |-> ""]

\* ------------------------------------------------------------ browser
\* localStorage.getItem('auth_token'): null, the empty string, or a token.
NoItem == [kind |-> "null", sub |-> ""]
EmptyToken == [kind |-> "empty", sub |-> ""]
ClientTokens == {t \in Tokens : t.kind # "missing"} \cup {EmptyToken}

\* The calls of logout(), and the state AuthProvider starts with.
LogoutIds == 1..MaxLogouts
NoLogout == [st |-> "idle", token |-> NoItem]
FirstRender == [user |-> NullUser, isAuthenticated |-> FALSE, isLoading |-> TRUE]

\* The system after start-up: the server on a Message collection holding
\* docs, the browser loading the page with item in localStorage.
InitSystem(docs, item) ==
    /\ db = [readyState |-> Disconnected, uri |-> NoUri]
    /\ dbCalls = [k \in DbCallIds |-> NoDbCall]
    /\ storage = item
    /\ fetches = <<>>
    /\ logouts = [k \in LogoutIds |-> NoLogout]
    /\ auth = [user |-> NullUser, isLoading |-> TRUE]
    /\ mounted = FALSE
    /\ ctx = FirstRender
    /\ nAuth = 0
    /\ http = [r \in Reqs |-> NewRequest]
    /\ now = StartTime
    /\ status = [u \in Users |-> "offline"]
    /\ lastSeen = [u \in Users |-> StartTime]
    /\ store = docs
    /\ nextId = Len(docs) + 1
    /\ pc = [c \in Conns |-> "new"]
    /\ open = [c \in Conns |-> TRUE]
    /\ user = [c \in Conns |-> NoUser]
    /\ reject = [c \in Conns |-> ""]
    /\ nextCalls = [c \in Conns |-> <<>>]
    /\ handlers = [c \in Conns |-> {}]
    /\ hist = [c \in Conns |-> NoHist]
    /\ sends = {}
    /\ discAt = [c \in Conns |-> NoDate]
    /\ inbox = [c \in Conns |-> <<>>]
    /\ nSends = 0
    /\ nTyping = 0

\* The server after start-up, on a Message collection holding docs.
InitWith(docs) == InitSystem(docs, NoItem)

Init == InitWith(<<>>)

\* socket.emit(event): reaches the client only while the socket is connected.
EmitTo(c, ev) ==
    IF pc[c] = "connected" THEN [inbox EXCEPT ![c] = Append(@, ev)] ELSE inbox

\* (mutant) a socket joins the namespace only once its history call is over
EmitAll_afterHistory(ev) ==
    [c \in Conns |->
        IF c \in Connected /\ hist[c].st = "done" THEN Append(inbox[c], ev)
        ELSE inbox[c]]

\* io.emit(event): every socket of the namespace.
EmitAll(ev) ==
    [c \in Conns |-> IF c \in Connected THEN Append(inbox[c], ev) ELSE inbox[c]]

\* socket.broadcast.emit(event): every socket of the namespace but this one.
BroadcastFrom(c, ev) ==
    [d \in Conns |->
        IF d \in Connected /\ d # c THEN Append(inbox[d], ev) ELSE inbox[d]]

\* The argument of a call of next: nothing, or an Error.
NoError == [error |-> FALSE, message |-> ""]
NextError(reason) == [error |-> TRUE, message |-> reason]

\* (mutant) next(err) without the return: the middleware goes on to next()
Refuse_andContinue(c, reason) ==
    /\ pc' = [pc EXCEPT ![c] = "next"]
    /\ reject' = [reject EXCEPT ![c] = reason]
    /\ nextCalls' = [nextCalls EXCEPT ![c] = @ \o <<NextError(reason), NoError>>]

\* next(new Error(reason)): the connection is refused.
Refuse(c, reason) ==
    /\ pc' = [pc EXCEPT ![c] = "rejected"]
    /\ reject' = [reject EXCEPT ![c] = reason]
    /\ nextCalls' = [nextCalls EXCEPT ![c] = Append(@, NextError(reason))]

\* ------------------------------------------------------------- socketAuth
\* The token check, jwt.verify and User.findById(decoded.id): found is
\* whether the lookup reaches the store.  The handler is suspended at the
\* lookup, which reads nothing a running handler writes.
socketAuth(c, tok, found) ==
    /\ pc[c] = "new"
    /\ \A d \in Conns : d < c => pc[d] # "new"
    /\ IF tok.kind = "missing"
         THEN Refuse(c, "Authentication token is required") /\ UNCHANGED user
         ELSE LET decoded == jwtVerify(tok) IN
              IF ~decoded.ok
                THEN /\ IF decoded.error = "TokenExpiredError"
                          THEN Refuse(c, "Token expired")
                          ELSE Refuse(c, "Invalid token")
                     /\ UNCHANGED user
                ELSE IF ~found \/ decoded.id = "badid"
                  THEN Refuse(c, "Authentication failed") /\ UNCHANGED user
                  ELSE IF decoded.id \notin Users
                    THEN Refuse(c, "User not found") /\ UNCHANGED user
                    ELSE /\ user' = [user EXCEPT ![c] = UserDoc(decoded.id)]
                         /\ pc' = [pc EXCEPT ![c] = "statusUpdate"]
                         /\ UNCHANGED <<reject, nextCalls>>
    /\ UNCHANGED <<extVars, now, userVars, store, nextId, open, handlers, hist,
                   sends, discAt, inbox, countVars>>

\* (mutant) the status write is not awaited: next() whatever its outcome
socketAuth_statusUpdate_notAwaited(c, ok) ==
    /\ pc[c] = "statusUpdate"
    /\ IF ok
         THEN status' = [status EXCEPT ![user[c]._id] = "online"]
         ELSE UNCHANGED status
    /\ pc' = [pc EXCEPT ![c] = "next"]
    /\ nextCalls' = [nextCalls EXCEPT ![c] = Append(@, NoError)]
    /\ UNCHANGED <<extVars, now, lastSeen, store, nextId, open, user, reject,
                   handlers, hist, sends, discAt, inbox, countVars>>

\* await User.findByIdAndUpdate(user._id, { status: 'online' }); next()
socketAuth_statusUpdate(c, ok) ==
    /\ pc[c] = "statusUpdate"
    /\ IF ok
         THEN /\ status' = [status EXCEPT ![user[c]._id] = "online"]
              /\ pc' = [pc EXCEPT ![c] = "next"]
              /\ nextCalls' = [nextCalls EXCEPT ![c] = Append(@, NoError)]
              /\ UNCHANGED reject
         ELSE /\ Refuse(c, "Authentication failed")
              /\ UNCHANGED status
    /\ UNCHANGED <<extVars, now, lastSeen, store, nextId, open, user, handlers,
                   hist, sends, discAt, inbox, countVars>>

\* registerMessageHandlers: handleLoadMessages is called and runs up to its
\* await; then the listeners are added.
registerMessageHandlers(c) ==
    /\ hist' = [hist EXCEPT ![c] = [st |-> "find", batch |-> <<>>]]
    /\ handlers' = [handlers EXCEPT ![c] =
            {"message:send", "user:typing:start", "user:typing:stop",
             "disconnect", "error"}]

\* next(): Socket.IO adds the socket to the namespace and fires 'connection',
\* unless the client has closed the transport in the meantime.
onConnection(c) ==
    /\ pc[c] = "next"
    /\ IF open[c]
         THEN /\ pc' = [pc EXCEPT ![c] = "connected"]
              /\ registerMessageHandlers(c)
         ELSE /\ pc' = [pc EXCEPT ![c] = "dropped"]
              /\ UNCHANGED <<hist, handlers>>
    /\ UNCHANGED <<extVars, nextCalls, now, userVars, store, nextId, open, user, reject,
                   sends, discAt, inbox, countVars>>

\* ----------------------------------------------------- handleLoadMessages
\* await Message.find()...: the query reads the collection, or fails.
handleLoadMessages_find(c, ok, tie) ==
    /\ hist[c].st = "find"
    /\ hist' = [hist EXCEPT ![c] =
            IF ok THEN [st |-> "found", batch |-> FindMessages(store, tie)]
                  ELSE [st |-> "failed", batch |-> <<>>]]
    /\ UNCHANGED <<extVars, nextCalls, now, userVars, store, nextId, connVars, sends, inbox, countVars>>

\* (mutant) a failed query answered with an empty message:history
handleLoadMessages_emit_emptyOnFailure(c) ==
    /\ hist[c].st \in {"found", "failed"}
    /\ inbox' = EmitTo(c, HistoryEvent(hist[c].batch))
    /\ hist' = [hist EXCEPT ![c] = [st |-> "done", batch |-> <<>>]]
    /\ UNCHANGED <<extVars, nextCalls, now, userVars, store, nextId, connVars, sends, countVars>>

\* The handler resumes: socket.emit('message:history', messages), or the
\* catch block's socket.emit('message:error', ...).
handleLoadMessages_emit(c) ==
    /\ hist[c].st \in {"found", "failed"}
    /\ inbox' = EmitTo(c, IF hist[c].st = "found"
                            THEN HistoryEvent(hist[c].batch)
                            ELSE ErrorEvent("Failed to load message history"))
    /\ hist' = [hist EXCEPT ![c] = [st |-> "done", batch |-> <<>>]]
    /\ UNCHANGED <<extVars, nextCalls, now, userVars, store, nextId, connVars, sends, countVars>>

\* ------------------------------------------------------ handleMessageSend
\* !content || typeof content !== 'string' || content.trim().length === 0
ContentMissing(v) ==
    \/ v.type = "undefined"
    \/ v.type = "number"
    \/ v.type = "string" /\ (v.runs = <<>> \/ StrLen(Trim(v.runs)) = 0)

\* (mutant) the limit taken one character too high
ContentTooLong_offByOne(v) == StrLen(v.runs) > MaxContentLength + 1

\* content.length > 1000
ContentTooLong(v) == StrLen(v.runs) > MaxContentLength

\* (mutant) the length check without its return: the error is emitted and
\* the handler goes on to build and save the document
handleMessageSend_noReturn(c, data) ==
    /\ pc[c] = "connected"
    /\ "message:send" \in handlers[c]
    /\ nSends' = nSends + 1
    /\ IF data.kind = "none"
         THEN UNCHANGED <<inbox, sends, nextId>>
         ELSE IF ContentMissing(data.content)
           THEN /\ inbox' = EmitTo(c, ErrorEvent("Message content is required"))
                /\ UNCHANGED <<sends, nextId>>
           ELSE /\ inbox' = IF ContentTooLong(data.content)
                              THEN EmitTo(c, ErrorEvent(
                                     "Message content cannot exceed 1000 characters"))
                              ELSE inbox
                /\ sends' = sends \cup
                        {[conn    |-> c,
                          message |-> NewMessage(nextId, user[c],
                                          Trim(data.content.runs), now),
                          st      |-> "save",
                          createdAt |-> NoDate]}
                /\ nextId' = nextId + 1
    /\ UNCHANGED <<extVars, nextCalls, now, userVars, store, connVars, hist, nTyping>>

\* A message:send event of a connected socket, up to the await of save().
\* Destructuring a missing payload throws before the try block is entered:
\* the handler's promise rejects and nothing is emitted.
handleMessageSend(c, data) ==
    /\ pc[c] = "connected"
    /\ "message:send" \in handlers[c]
    /\ nSends' = nSends + 1
    /\ IF data.kind = "none"
         THEN UNCHANGED <<inbox, sends, nextId>>
         ELSE IF ContentMissing(data.content)
           THEN /\ inbox' = EmitTo(c, ErrorEvent("Message content is required"))
                /\ UNCHANGED <<sends, nextId>>
           ELSE IF ContentTooLong(data.content)
             THEN /\ inbox' = EmitTo(c,
                        ErrorEvent("Message content cannot exceed 1000 characters"))
                  /\ UNCHANGED <<sends, nextId>>
             ELSE /\ sends' = sends \cup
                        {[conn    |-> c,
                          message |-> NewMessage(nextId, user[c],
                                          Trim(data.content.runs), now),
                          st      |-> "save",
                          createdAt |-> NoDate]}
                  /\ nextId' = nextId + 1
                  /\ UNCHANGED inbox
    /\ UNCHANGED <<extVars, nextCalls, now, userVars, store, connVars, hist, nTyping>>

\* await message.save(): the document is validated and inserted, or the
\* store fails.
handleMessageSend_save(s, ok) ==
    /\ s \in sends
    /\ s.st = "save"
    /\ IF ok /\ ValidMessage(s.message)
         THEN /\ store' = Append(store, Persisted(s.message, now))
              /\ sends' = (sends \ {s}) \cup
                            {[s EXCEPT !.st = "saved", !.createdAt = now]}
         ELSE /\ sends' = (sends \ {s}) \cup {[s EXCEPT !.st = "failed"]}
              /\ UNCHANGED store
    /\ UNCHANGED <<extVars, nextCalls, now, userVars, nextId, connVars, hist, inbox, countVars>>

\* (mutant) socket.broadcast.emit in place of io.emit: the sender is left out
handleMessageSend_emit_toOthers(s) ==
    /\ s \in sends
    /\ s.st \in {"saved", "failed"}
    /\ inbox' = IF s.st = "saved"
                  THEN BroadcastFrom(s.conn,
                            NewEvent(Persisted(s.message, s.createdAt)))
                  ELSE EmitTo(s.conn, ErrorEvent("Failed to send message"))
    /\ sends' = sends \ {s}
    /\ UNCHANGED <<extVars, nextCalls, now, userVars, store, nextId, connVars, hist, countVars>>

\* (mutant) nothing is emitted once the sender's socket has gone
handleMessageSend_emit_ifSenderConnected(s) ==
    /\ s \in sends
    /\ s.st \in {"saved", "failed"}
    /\ inbox' = IF pc[s.conn] # "connected" THEN inbox
                ELSE IF s.st = "saved"
                  THEN EmitAll(NewEvent(Persisted(s.message, s.createdAt)))
                  ELSE EmitTo(s.conn, ErrorEvent("Failed to send message"))
    /\ sends' = sends \ {s}
    /\ UNCHANGED <<extVars, nextCalls, now, userVars, store, nextId, connVars, hist, countVars>>

\* (mutant) the broadcast is made whether or not the save succeeded
handleMessageSend_emit_always(s) ==
    /\ s \in sends
    /\ s.st \in {"saved", "failed"}
    /\ inbox' = EmitAll(NewEvent(Persisted(s.message, s.createdAt)))
    /\ sends' = sends \ {s}
    /\ UNCHANGED <<extVars, nextCalls, now, userVars, store, nextId, connVars, hist, countVars>>

\* The handler resumes: io.emit('message:new', ...) with the saved document,
\* or the catch block's socket.emit('message:error', ...).
handleMessageSend_emit(s) ==
    /\ s \in sends
    /\ s.st \in {"saved", "failed"}
    /\ inbox' = IF s.st = "saved"
                  THEN EmitAll(NewEvent(Persisted(s.message, s.createdAt)))
                  ELSE EmitTo(s.conn, ErrorEvent("Failed to send message"))
    /\ sends' = sends \ {s}
    /\ UNCHANGED <<extVars, nextCalls, now, userVars, store, nextId, connVars, hist, countVars>>

\* -------------------------------------------------- handleTypingIndicator
\* (mutant) io.emit in place of socket.broadcast.emit: the typist is included
handleTypingIndicator_toAll(c, isTyping) ==
    /\ pc[c] = "connected"
    /\ (IF isTyping THEN "user:typing:start" ELSE "user:typing:stop") \in handlers[c]
    /\ nTyping' = nTyping + 1
    /\ inbox' = EmitAll(TypingEvent(user[c], isTyping))
    /\ UNCHANGED <<extVars, nextCalls, now, userVars, store, nextId, connVars, hist, sends, nSends>>

\* user:typing:start (isTyping = TRUE) or user:typing:stop (FALSE).
handleTypingIndicator(c, isTyping) ==
    /\ pc[c] = "connected"
    /\ (IF isTyping THEN "user:typing:start" ELSE "user:typing:stop") \in handlers[c]
    /\ nTyping' = nTyping + 1
    /\ inbox' = BroadcastFrom(c, TypingEvent(user[c], isTyping))
    /\ UNCHANGED <<extVars, nextCalls, now, userVars, store, nextId, connVars, hist, sends, nSends>>

\* ------------------------------------------------------------- disconnect
\* The client closes the transport while socketAuth is still running.
closeDuringAuth(c) ==
    /\ pc[c] \in {"statusUpdate", "next"}
    /\ open[c]
    /\ open' = [open EXCEPT ![c] = FALSE]
    /\ UNCHANGED <<extVars, nextCalls, now, userVars, store, nextId, pc, user, reject,
                   handlers, hist, sends, discAt, inbox, countVars>>

\* The socket closes: Socket.IO removes it from the namespace and fires
\* 'disconnect'; the listener runs up to its await.  The client's record of
\* the session ends with it.
onDisconnect(c) ==
    /\ pc[c] = "connected"
    /\ "disconnect" \in handlers[c]
    /\ open' = [open EXCEPT ![c] = FALSE]
    /\ inbox' = [inbox EXCEPT ![c] = <<>>]
    /\ IF user[c] # NoUser
         THEN /\ pc' = [pc EXCEPT ![c] = "statusOffline"]
              /\ discAt' = [discAt EXCEPT ![c] = now]
         ELSE /\ pc' = [pc EXCEPT ![c] = "closed"]
              /\ UNCHANGED discAt
    /\ UNCHANGED <<extVars, nextCalls, now, userVars, store, nextId, user, reject, handlers,
                   hist, sends, countVars>>

\* (mutant) the disconnect update without lastSeen
onDisconnect_statusUpdate_statusOnly(c, ok) ==
    /\ pc[c] = "statusOffline"
    /\ pc' = [pc EXCEPT ![c] = "closed"]
    /\ discAt' = [discAt EXCEPT ![c] = NoDate]
    /\ IF ok
         THEN status' = [status EXCEPT ![user[c]._id] = "offline"]
         ELSE UNCHANGED status
    /\ UNCHANGED <<extVars, nextCalls, now, lastSeen, store, nextId, open, user, reject, handlers,
                   hist, sends, inbox, countVars>>

\* (mutant) the user is marked offline only when no other session of the
\* same user is connected
onDisconnect_statusUpdate_lastSession(c, ok) ==
    /\ pc[c] = "statusOffline"
    /\ pc' = [pc EXCEPT ![c] = "closed"]
    /\ discAt' = [discAt EXCEPT ![c] = NoDate]
    /\ IF ok /\ ~\E d \in Connected : user[d] = user[c]
         THEN /\ status' = [status EXCEPT ![user[c]._id] = "offline"]
              /\ lastSeen' = [lastSeen EXCEPT ![user[c]._id] = discAt[c]]
         ELSE UNCHANGED <<status, lastSeen>>
    /\ UNCHANGED <<extVars, nextCalls, now, store, nextId, open, user, reject, handlers,
                   hist, sends, inbox, countVars>>

\* await User.findByIdAndUpdate(socket.user._id, { status: 'offline',
\* lastSeen: new Date() })
onDisconnect_statusUpdate(c, ok) ==
    /\ pc[c] = "statusOffline"
    /\ pc' = [pc EXCEPT ![c] = "closed"]
    /\ discAt' = [discAt EXCEPT ![c] = NoDate]
    /\ IF ok
         THEN /\ status' = [status EXCEPT ![user[c]._id] = "offline"]
              /\ lastSeen' = [lastSeen EXCEPT ![user[c]._id] = discAt[c]]
         ELSE UNCHANGED <<status, lastSeen>>
    /\ UNCHANGED <<extVars, nextCalls, now, store, nextId, open, user, reject, handlers,
                   hist, sends, inbox, countVars>>

\* ------------------------------------------------------------------ clock
Tick ==
    /\ now' = now + 1
    /\ UNCHANGED <<extVars, nextCalls, userVars, store, nextId, connVars, hist, sends,
                   inbox, countVars>>

\* ---------------------------------------------------------------- protect
\* What the HTTP middleware leaves alone.
serverVars == <<now, status, lastSeen, store, nextId, pc, open, user, reject,
                handlers, hist, sends, discAt, inbox, nSends, nTyping, nextCalls>>

\* (mutant) the scheme of the header is not looked at
StartsWithBearer_anyScheme(h) == h.present /\ Len(h.words) >= 1

\* req.headers.authorization && req.headers.authorization.startsWith('Bearer')
StartsWithBearer(h) ==
    /\ h.present
    /\ Len(h.words) >= 1
    /\ h.words[1].text \in {"Bearer", "BearerToken"}

\* [, token] = req.headers.authorization.split(' '), or token left undefined
UndefinedWord == [text |-> "", tok |-> [kind |-> "undefined", sub |-> ""]]
HeaderToken(h) ==
    IF StartsWithBearer(h) /\ Len(h.words) >= 2 THEN h.words[2] ELSE UndefinedWord

\* !token
Falsy(w) == w = UndefinedWord \/ w = Word("")

\* jwt.verify on the token of the header: text that is no JWT is malformed.
VerifyWord(w) ==
    IF w.text = "jwt" THEN jwtVerify(w.tok)
    ELSE [ok |-> FALSE, id |-> "", error |-> "JsonWebTokenError"]

\* res.status(code).json({ message })
Respond(r, code, message) ==
    [http EXCEPT ![r].st = "done", ![r].res = [code |-> code, message |-> message]]

\* protect, up to the await of User.findById(decoded.id).
protect(r, h) ==
    /\ http[r].st = "new"
    /\ \A q \in Reqs : q < r => http[q].st # "new"
    /\ LET arrived == [http EXCEPT ![r].header = h]
           token == HeaderToken(h)
       IN  IF Falsy(token)
             THEN http' = [Respond(r, 401, "Not authorized, no token")
                              EXCEPT ![r].header = h]
             ELSE IF ~VerifyWord(token).ok
               THEN http' = [Respond(r, 401, "Not authorized, token failed")
                                EXCEPT ![r].header = h]
               ELSE http' = [arrived EXCEPT ![r].st = "findById",
                                            ![r].decoded = VerifyWord(token).id]
    /\ UNCHANGED <<dbVars, serverVars, clientVars>>

\* The lookup returns or throws; protect resumes: req.user = ...; next(), or
\* the catch block's 401.
protect_findById(r, found) ==
    /\ http[r].st = "findById"
    /\ IF ~found \/ http[r].decoded = "badid"
         THEN http' = Respond(r, 401, "Not authorized, token failed")
         ELSE http' = [http EXCEPT
                ![r].user = IF http[r].decoded \in Users
                              THEN UserDoc(http[r].decoded) ELSE NullUser,
                ![r].handler = TRUE,
                ![r].st = "handler"]
    /\ UNCHANGED <<dbVars, serverVars, clientVars>>

\* ----------------------------------------------------- utils/auth logout
\* `Bearer ${token}`
BearerHeader(token) == Header(<<Word("Bearer"), JwtWord(token)>>)

\* !token, for the item of localStorage
NoStoredToken(item) == item = NoItem \/ item = EmptyToken

\* logout(), up to the await of fetch: without a token it returns at once.
logout(k) ==
    /\ logouts[k].st = "idle"
    /\ \A j \in LogoutIds : j < k => logouts[j].st # "idle"
    /\ IF NoStoredToken(storage)
         THEN /\ logouts' = [logouts EXCEPT ![k].st = "done"]
              /\ UNCHANGED fetches
         ELSE /\ logouts' = [logouts EXCEPT ![k] = [st |-> "fetch", token |-> storage]]
              /\ fetches' = Append(fetches,
                    [call |-> k, url |-> "/api/auth/logout", method |-> "POST",
                     authorization |-> BearerHeader(storage)])
    /\ UNCHANGED <<dbVars, serverVars, http, storage, auth, mounted, ctx, nAuth>>

\* (mutant) removeToken() after the fetch in the try block, with no finally
logout_settle_inTry(k, ok) ==
    /\ logouts[k].st = "fetch"
    /\ logouts' = [logouts EXCEPT ![k].st = "done"]
    /\ storage' = IF ok THEN NoItem ELSE storage
    /\ UNCHANGED <<dbVars, serverVars, http, fetches, auth, mounted, ctx, nAuth>>

\* The fetch resolves (ok) or rejects; the catch block logs, and the finally
\* block removes the token.
logout_settle(k, ok) ==
    /\ logouts[k].st = "fetch"
    /\ logouts' = [logouts EXCEPT ![k].st = "done"]
    /\ storage' = NoItem
    /\ UNCHANGED <<dbVars, serverVars, http, fetches, auth, mounted, ctx, nAuth>>

\* ------------------------------------------------------------ AuthProvider
\* validateToken: three parts, a payload that decodes, and exp in the future.
\* The signature is not checked in the browser.
validateToken(t) == t.kind \in {"valid", "badsig"}

\* !!user
Truthy(v) == v # NullUser

\* (mutant) isAuthenticated taken from the stored token
ContextValue_fromToken(a) ==
    [user |-> a.user, isAuthenticated |-> ~NoStoredToken(storage),
     isLoading |-> a.isLoading]

\* value = { user, isAuthenticated: !!user, isLoading, login, logout }
ContextValue(a) ==
    [user |-> a.user, isAuthenticated |-> Truthy(a.user), isLoading |-> a.isLoading]

\* The mount effect: a stored token that validates makes the user of its
\* payload the current user; then setIsLoading(false).
AuthProvider_useEffect ==
    /\ ~mounted
    /\ mounted' = TRUE
    /\ auth' = [user |-> IF ~NoStoredToken(storage) /\ validateToken(storage)
                           THEN [_id |-> storage.sub, username |-> ""]
                           ELSE auth.user,
                isLoading |-> FALSE]
    /\ UNCHANGED <<dbVars, serverVars, http, storage, fetches, logouts, ctx, nAuth>>

\* login(token, userData): setToken(token); setUser(userData)
AuthProvider_login(token, userData) ==
    /\ mounted
    /\ storage' = token
    /\ auth' = [auth EXCEPT !.user = userData]
    /\ nAuth' = nAuth + 1
    /\ UNCHANGED <<dbVars, serverVars, http, fetches, logouts, mounted, ctx>>

\* logout(): removeToken(); setUser(null)
AuthProvider_logout ==
    /\ mounted
    /\ storage' = NoItem
    /\ auth' = [auth EXCEPT !.user = NullUser]
    /\ nAuth' = nAuth + 1
    /\ UNCHANGED <<dbVars, serverVars, http, fetches, logouts, mounted, ctx>>

\* React renders the provider again after a state change.
AuthProvider_render ==
    /\ ctx # ContextValue(auth)
    /\ ctx' = ContextValue(auth)
    /\ UNCHANGED <<dbVars, serverVars, http, storage, fetches, logouts, auth, mounted, nAuth>>

\* ---------------------------------------------------------------- ChatRoom
\* The messages state of the ChatRoom component after its listeners have
\* handled the events of a socket in the order they arrived:
\* 'message:history' does setMessages(messageHistory), 'message:new' does
\* setMessages(prev => [...prev, message]), 'message:error' shows an alert.
RECURSIVE ChatRoom_messages(_)
ChatRoom_messages(events) ==
    IF events = <<>> THEN <<>>
    ELSE LET prev == ChatRoom_messages(SubSeq(events, 1, Len(events) - 1))
             ev   == events[Len(events)]
         IN  IF ev.event = "message:history" THEN ev.data
             ELSE IF ev.event = "message:new" THEN Append(prev, ev.data)
             ELSE prev

\* --------------------------------------------------------------- connectDB
appVars == <<serverVars, http, clientVars>>

\* !uri
UriMissing(uri) == ~uri.given \/ uri.text = ""

\* connectDB(uri), up to its first await or its return.
connectDB(k, uri) ==
    /\ dbCalls[k].st = "idle"
    /\ \A j \in DbCallIds : j < k => dbCalls[j].st # "idle"
    /\ IF UriMissing(uri)
         THEN /\ dbCalls' = [dbCalls EXCEPT ![k] =
                    [st |-> "rejected", uri |-> uri, result |-> NoUri,
                     error |-> "MongoDB URI is required"]]
              /\ UNCHANGED db
         ELSE IF db.readyState = IsConnected
           THEN /\ dbCalls' = [dbCalls EXCEPT ![k] =
                      [st |-> "done", uri |-> uri, result |-> db.uri, error |-> ""]]
                /\ UNCHANGED db
           ELSE IF db.readyState # Disconnected
             THEN /\ dbCalls' = [dbCalls EXCEPT ![k].st = "close", ![k].uri = uri]
                  /\ db' = [db EXCEPT !.readyState = Disconnecting]
             ELSE /\ dbCalls' = [dbCalls EXCEPT ![k].st = "connect", ![k].uri = uri]
                  /\ db' = [readyState |-> Connecting, uri |-> uri]
    /\ UNCHANGED appVars

\* await mongoose.connection.close() returns; mongoose.connect(uri, options)
\* is called.
connectDB_closed(k) ==
    /\ dbCalls[k].st = "close"
    /\ dbCalls' = [dbCalls EXCEPT ![k].st = "connect"]
    /\ db' = [readyState |-> Connecting, uri |-> dbCalls[k].uri]
    /\ UNCHANGED appVars

\* await mongoose.connect(uri, options) returns the connection, or throws
\* and the catch block rethrows.
connectDB_connected(k, ok) ==
    /\ dbCalls[k].st = "connect"
    /\ IF ok
         THEN /\ dbCalls' = [dbCalls EXCEPT ![k].st = "done",
                                            ![k].result = dbCalls[k].uri]
              /\ db' = [readyState |-> IsConnected, uri |-> dbCalls[k].uri]
         ELSE /\ dbCalls' = [dbCalls EXCEPT ![k].st = "rejected",
                                            ![k].error = "connection error"]
              /\ db' = [readyState |-> Disconnected, uri |-> NoUri]
    /\ UNCHANGED appVars

\* mongoose.connection.close() by the caller (the tests' afterEach).
connectionClose ==
    /\ db.readyState = IsConnected
    /\ \A k \in DbCallIds : dbCalls[k].st \in {"idle", "done", "rejected"}
    /\ db' = [readyState |-> Disconnected, uri |-> NoUri]
    /\ UNCHANGED <<dbCalls, appVars>>

\* ------------------------------------------------------------------- spec
Next ==
    \/ \E c \in Conns, tok \in Tokens, found \in BOOLEAN : socketAuth(c, tok, found)
    \/ \E c \in Conns, ok \in BOOLEAN : socketAuth_statusUpdate(c, ok)
    \/ \E c \in Conns : onConnection(c)
    \/ \E c \in Conns, ok \in BOOLEAN, tie \in TieOrders :
            handleLoadMessages_find(c, ok, tie)
    \/ \E c \in Conns : handleLoadMessages_emit(c)
    \/ \E c \in Conns, data \in Payloads :
            nSends < MaxSends /\ handleMessageSend(c, data)
    \/ \E s \in sends, ok \in BOOLEAN : handleMessageSend_save(s, ok)
    \/ \E s \in sends : handleMessageSend_emit(s)
    \/ \E c \in Conns, isTyping \in BOOLEAN :
            nTyping < MaxTyping /\ handleTypingIndicator(c, isTyping)
    \/ \E c \in Conns : closeDuringAuth(c)
    \/ \E c \in Conns : onDisconnect(c)
    \/ \E c \in Conns, ok \in BOOLEAN : onDisconnect_statusUpdate(c, ok)
    \/ now < StartTime + MaxTicks /\ Tick

Spec == Init /\ [][Next]_vars

\* The same server started on a collection that already holds about as many
\* messages as a history batch takes; clients present valid tokens and the
\* User collection answers.
ValidTokens == {tok \in Tokens : tok.kind = "valid" /\ tok.sub \in Users}

HistoryPayloads == {Payload(Str(<<>>)), Payload(Str(<<Run("a", 2)>>))}

InitHistory ==
    \E n \in {HistoryLimit, HistoryLimit + 1} :
        InitWith(StoredMessages(n))

NextHistory ==
    \/ \E c \in Conns, tok \in ValidTokens : socketAuth(c, tok, TRUE)
    \/ \E c \in Conns : socketAuth_statusUpdate(c, TRUE)
    \/ \E c \in Conns : onConnection(c)
    \/ \E c \in Conns, ok \in BOOLEAN, tie \in TieOrders :
            handleLoadMessages_find(c, ok, tie)
    \/ \E c \in Conns : handleLoadMessages_emit(c)
    \/ \E c \in Conns, data \in HistoryPayloads :
            nSends < MaxSends /\ handleMessageSend(c, data)
    \/ \E s \in sends, ok \in BOOLEAN : handleMessageSend_save(s, ok)
    \/ \E s \in sends : handleMessageSend_emit(s)
    \/ \E c \in Conns, isTyping \in BOOLEAN :
            nTyping < MaxTyping /\ handleTypingIndicator(c, isTyping)
    \/ \E c \in Conns : onDisconnect(c)
    \/ \E c \in Conns : onDisconnect_statusUpdate(c, TRUE)

SpecHistory == InitHistory /\ [][NextHistory]_vars

\* Two message:send events in one behaviour, so that sends overlap: clients
\* present valid tokens, the User collection answers, and the payloads are a
\* blank string, a string with whitespace around it, and strings of 1000 and
\* of 1001 characters.
ChatPayloads ==
    { Payload(Str(<<Run("ws", 3)>>)),
      Payload(Str(<<Run("ws", 1), Run("a", 2), Run("ws", 1)>>)),
      Payload(Str(<<Run("a", MaxContentLength - 1), Run("ws", 1)>>)),
      Payload(Str(<<Run("a", MaxContentLength + 1)>>)) }

NextChat ==
    \/ \E c \in Conns, tok \in ValidTokens : socketAuth(c, tok, TRUE)
    \/ \E c \in Conns : socketAuth_statusUpdate(c, TRUE)
    \/ \E c \in Conns : onConnection(c)
    \/ \E c \in Conns, tie \in TieOrders : handleLoadMessages_find(c, TRUE, tie)
    \/ \E c \in Conns : handleLoadMessages_emit(c)
    \/ \E c \in Conns, data \in ChatPayloads :
            nSends < MaxChatSends /\ handleMessageSend(c, data)
    \/ \E s \in sends, ok \in BOOLEAN : handleMessageSend_save(s, ok)
    \/ \E s \in sends : handleMessageSend_emit(s)
    \/ \E c \in Conns : onDisconnect(c)
    \/ \E c \in Conns : onDisconnect_statusUpdate(c, TRUE)

SpecChat == Init /\ [][NextChat]_vars

\* Two valid sends with the clock advancing between them, and sessions that
\* connect before and after: the store answers every call.
OrderPayloads == {Payload(Str(<<Run("a", 2)>>))}

NextOrder ==
    \/ \E c \in Conns, tok \in ValidTokens : socketAuth(c, tok, TRUE)
    \/ \E c \in Conns : socketAuth_statusUpdate(c, TRUE)
    \/ \E c \in Conns : onConnection(c)
    \/ \E c \in Conns, tie \in TieOrders : handleLoadMessages_find(c, TRUE, tie)
    \/ \E c \in Conns : handleLoadMessages_emit(c)
    \/ \E c \in Conns, data \in OrderPayloads :
            nSends < MaxChatSends /\ handleMessageSend(c, data)
    \/ \E s \in sends : handleMessageSend_save(s, TRUE)
    \/ \E s \in sends : handleMessageSend_emit(s)
    \/ now < StartTime + MaxTicks /\ Tick

SpecOrder == Init /\ [][NextOrder]_vars

\* Connections that open and close, some of them while socketAuth is still
\* at work: clients present valid tokens and the store answers every call.
NextPresence ==
    \/ \E c \in Conns, tok \in ValidTokens : socketAuth(c, tok, TRUE)
    \/ \E c \in Conns : socketAuth_statusUpdate(c, TRUE)
    \/ \E c \in Conns : onConnection(c)
    \/ \E c \in Conns, tie \in TieOrders : handleLoadMessages_find(c, TRUE, tie)
    \/ \E c \in Conns : handleLoadMessages_emit(c)
    \/ \E c \in Conns : closeDuringAuth(c)
    \/ \E c \in Conns : onDisconnect(c)
    \/ \E c \in Conns : onDisconnect_statusUpdate(c, TRUE)
    \/ now < StartTime + MaxTicks /\ Tick

SpecPresence == Init /\ [][NextPresence]_vars

\* Requests to a route behind protect, with every kind of Authorization
\* header.
NextHttp ==
    \/ \E r \in Reqs, h \in Headers : protect(r, h)
    \/ \E r \in Reqs, found \in BOOLEAN : protect_findById(r, found)

SpecHttp == Init /\ [][NextHttp]_vars

\* The browser: a page loaded with any item in localStorage, the provider
\* mounting, and calls of login and logout.
InitClient == \E item \in {NoItem} \cup ClientTokens : InitSystem(<<>>, item)

NextClient ==
    \/ \E k \in LogoutIds : logout(k)
    \/ \E k \in LogoutIds, ok \in BOOLEAN : logout_settle(k, ok)
    \/ AuthProvider_useEffect
    \/ \E token \in ValidTokens, u \in Users :
            nAuth < MaxAuthCalls /\ AuthProvider_login(token, UserDoc(u))
    \/ nAuth < MaxAuthCalls /\ AuthProvider_logout
    \/ AuthProvider_render

SpecClient == InitClient /\ [][NextClient]_vars

\* Calls of connectDB, one after the other or overlapping.
NextDb ==
    \/ \E k \in DbCallIds, uri \in Uris : connectDB(k, uri)
    \/ \E k \in DbCallIds : connectDB_closed(k)
    \/ \E k \in DbCallIds, ok \in BOOLEAN : connectDB_connected(k, ok)
    \/ connectionClose

SpecDb == Init /\ [][NextDb]_vars

\* =================================================================== claims
\* What the claims speak of, stated without the operators of the handlers.

\* t has no whitespace at either end.
IsTrimmed(t) == t = <<>> \/ (t[1].ch # "ws" /\ t[Len(t)].ch # "ws")

\* t is s without the whitespace at its ends.
IsTrimOf(t, s) ==
    /\ IsTrimmed(t)
    /\ \E i \in 0..Len(s) :
          /\ i + Len(t) <= Len(s)
          /\ SubSeq(s, i + 1, i + Len(t)) = t
          /\ \A k \in 1..Len(s) : (k <= i \/ k > i + Len(t)) => s[k].ch = "ws"

IsString(data) == data.kind = "object" /\ data.content.type = "string"

\* The events of one kind a client has received.
Received(c, event) == {k \in 1..Len(inbox[c]) : inbox[c][k].event = event}
ReceivedNew(c, id) ==
    {k \in Received(c, "message:new") : inbox[c][k].data._id = id}
ReceivedError(c, msg) ==
    {k \in Received(c, "message:error") : inbox[c][k].data.message = msg}
Stored(id) == {i \in 1..Len(store) : store[i]._id = id}

\* One event, ev, reaches client c in this step and nothing else does.
Delivered(c, ev) == inbox'[c] = Append(inbox[c], ev)
Silent(c) == inbox'[c] = inbox[c]

\* C1: a message:send whose content is a string, non-empty after trimming and
\* at most 1000 characters long, starts one save of a document holding the
\* trimmed content; the save, when the store performs it, adds exactly that one
\* record; and the handler then delivers exactly one message:new with that
\* record's id and content to every session connected at that moment, the sender
\* included, and to no one else.  No id is ever stored twice or delivered twice
\* to a session.
C1_Accepted(c, data) ==
    /\ IsString(data)
    /\ ~IsTrimOf(<<>>, data.content.runs)
    /\ StrLen(data.content.runs) <= MaxContentLength
    /\ handleMessageSend(c, data)
    => /\ Cardinality(sends' \ sends) = 1
       /\ \A s \in sends' \ sends :
             /\ s.conn = c
             /\ IsTrimOf(s.message.content, data.content.runs)
       /\ sends \subseteq sends'
       /\ store' = store
       /\ inbox' = inbox

C1_Persisted(s) ==
    s.st = "save" /\ handleMessageSend_save(s, TRUE)
    => /\ Len(store') = Len(store) + 1
       /\ SubSeq(store', 1, Len(store)) = store
       /\ store'[Len(store')]._id = s.message._id
       /\ store'[Len(store')].content = s.message.content
       /\ inbox' = inbox

C1_Broadcast(s) ==
    s.st = "saved" /\ handleMessageSend_emit(s)
    => /\ \A d \in Conns :
             IF pc[d] = "connected"
               THEN /\ Len(inbox'[d]) = Len(inbox[d]) + 1
                    /\ SubSeq(inbox'[d], 1, Len(inbox[d])) = inbox[d]
                    /\ inbox'[d][Len(inbox'[d])].event = "message:new"
                    /\ inbox'[d][Len(inbox'[d])].data._id = s.message._id
                    /\ inbox'[d][Len(inbox'[d])].data.content = s.message.content
               ELSE Silent(d)
       /\ store' = store
       /\ \A r \in sends' : r.message._id # s.message._id

C1_Once ==
    /\ \A i \in 1..Len(store) : Stored(store[i]._id) = {i}
    /\ \A c \in Conns : \A k \in Received(c, "message:new") :
            ReceivedNew(c, inbox[c][k].data._id) = {k}
    /\ \A s \in sends :
            /\ \A c \in Conns : ReceivedNew(c, s.message._id) = {}
            /\ Cardinality(Stored(s.message._id)) = IF s.st = "saved" THEN 1 ELSE 0

C1_Step ==
    /\ nSends' # nSends =>
            \A c \in Conns, data \in Payloads \cup ChatPayloads : C1_Accepted(c, data)
    /\ sends' # sends =>
            \A s \in sends : C1_Persisted(s) /\ C1_Broadcast(s)

C1_ValidSend == [](C1_Once) /\ [][C1_Step]_vars

\* C1 witness: a message sent with whitespace around it is stored once and
\* has reached two connected sessions once each, trimmed.
C1_Witness ==
    \E c, d \in Connected : \E i \in 1..Len(store) :
        /\ c # d
        /\ store[i].content = <<Run("a", 2)>>
        /\ store[i].userId = user[c]._id
        /\ Cardinality(ReceivedNew(c, store[i]._id)) = 1
        /\ Cardinality(ReceivedNew(d, store[i]._id)) = 1
        /\ \A k \in ReceivedNew(d, store[i]._id) :
              inbox[d][k].data.content = <<Run("a", 2)>>

\* C2: a message:send whose content is empty after trimming or longer than
\* 1000 characters persists nothing and starts no save, so that no message:new
\* can follow; the sender receives exactly one message:error and no other
\* session receives anything.
C2_Rejected(c, data) ==
    /\ IsString(data)
    /\ \/ IsTrimOf(<<>>, data.content.runs)
       \/ StrLen(data.content.runs) > MaxContentLength
    /\ handleMessageSend(c, data)
    => /\ store' = store
       /\ sends' = sends
       /\ Len(inbox'[c]) = Len(inbox[c]) + 1
       /\ SubSeq(inbox'[c], 1, Len(inbox[c])) = inbox[c]
       /\ inbox'[c][Len(inbox'[c])].event = "message:error"
       /\ \A d \in Conns \ {c} : Silent(d)

C2_InvalidSend ==
    [][nSends' # nSends => \A c \in Conns, data \in Payloads : C2_Rejected(c, data)]_vars

\* C2 witness: a session has been refused a 1001-character message while
\* another session was connected; nothing is stored or being saved.
C2_Witness ==
    \E c, d \in Connected :
        /\ c # d
        /\ Cardinality(ReceivedError(c, "Message content cannot exceed 1000 characters")) = 1
        /\ Received(d, "message:error") = {}
        /\ Received(c, "message:new") \cup Received(d, "message:new") = {}
        /\ store = <<>> /\ sends = {} /\ nSends = 1

\* C3: a message:new is delivered only for a record that is in the store; a
\* save that fails leaves the store and every client untouched, and the handler
\* then sends 'Failed to send message' to the sender alone (to no one when the
\* sender has gone) and never a message:new.
C3_OnlyPersisted ==
    /\ \A c \in Conns : \A k \in Received(c, "message:new") :
          \E i \in 1..Len(store) :
              /\ store[i]._id = inbox[c][k].data._id
              /\ store[i].content = inbox[c][k].data.content
    /\ \A s \in sends : s.st # "saved" =>
          /\ Stored(s.message._id) = {}
          /\ \A c \in Conns : ReceivedNew(c, s.message._id) = {}

C3_FailedSave(s) ==
    s.st = "save" /\ handleMessageSend_save(s, FALSE)
    => /\ store' = store
       /\ inbox' = inbox
       /\ \A r \in sends' : r.message._id = s.message._id => r.st = "failed"

C3_FailedEmit(s) ==
    s.st = "failed" /\ handleMessageSend_emit(s)
    => /\ store' = store
       /\ \A d \in Conns \ {s.conn} : Silent(d)
       /\ IF pc[s.conn] = "connected"
            THEN Delivered(s.conn, ErrorEvent("Failed to send message"))
            ELSE Silent(s.conn)
       /\ \A r \in sends' : r.message._id # s.message._id

C3_FailedPersist ==
    /\ [](C3_OnlyPersisted)
    /\ [][sends' # sends => \A s \in sends : C3_FailedSave(s) /\ C3_FailedEmit(s)]_vars

\* C3 witness: a save has failed; the sender has the error, the other
\* connected session has nothing, and the store is empty.
C3_Witness ==
    \E c, d \in Connected :
        /\ c # d
        /\ Cardinality(ReceivedError(c, "Failed to send message")) = 1
        /\ Received(d, "message:error") = {}
        /\ Received(c, "message:new") \cup Received(d, "message:new") = {}
        /\ store = <<>> /\ sends = {}

\* C4: a connection attempt whose token is missing, malformed, badly signed or
\* expired is refused in the one step socketAuth takes for it, with presence
\* status and last-seen of every user unchanged; a refused connection stays
\* refused, has no history call, no listeners and no bound user, and receives
\* nothing; and presence is written only on behalf of a connection that was
\* not refused.
BadCredentials == {tok \in Tokens : tok.kind # "valid"}
BadCredentialReasons ==
    {"Authentication token is required", "Invalid token", "Token expired"}

C4_Refused(c, tok, found) ==
    socketAuth(c, tok, found)
    => /\ pc'[c] = "rejected"
       /\ reject'[c] \in BadCredentialReasons
       /\ status' = status
       /\ lastSeen' = lastSeen
       /\ inbox' = inbox
       /\ hist' = hist

C4_StaysRefused ==
    \A c \in Conns : reject[c] \in BadCredentialReasons =>
        /\ pc[c] = "rejected"
        /\ hist[c] = NoHist
        /\ handlers[c] = {}
        /\ user[c] = NoUser
        /\ Received(c, "message:history") = {}

C4_PresenceWriter ==
    userVars' # userVars =>
        \E c \in Conns :
            /\ reject[c] = ""
            /\ pc[c] \in {"statusUpdate", "statusOffline"}
            /\ pc'[c] # pc[c]

C4_Step ==
    /\ pc' # pc => \A c \in Conns, tok \in BadCredentials, found \in BOOLEAN :
                        C4_Refused(c, tok, found)
    /\ C4_PresenceWriter

C4_BadCredential == [](C4_StaysRefused) /\ [][C4_Step]_vars

\* C4 witness: a connection refused for an expired token next to a session
\* that has its history; only the session's user is online.
C4_Witness ==
    \E c \in Conns, d \in Connected :
        /\ reject[c] = "Token expired"
        /\ Received(d, "message:history") # {}
        /\ \A u \in Users : status[u] = "online" <=> u = user[d]._id
        /\ \A u \in Users : lastSeen[u] = StartTime

\* C5: a connection that has listeners, a history call, a pending save, or
\* that has received anything, is a session (connected, or disconnected after
\* having been connected) with one user of the directory bound to it and no
\* refusal; the user is bound in the step of its own socketAuth that finds
\* the user, and never changes afterwards; a connection that is refused or
\* still in socketAuth has none of these.
HasSessionState(c) ==
    \/ handlers[c] # {}
    \/ hist[c] # NoHist
    \/ inbox[c] # <<>>
    \/ \E s \in sends : s.conn = c

IsSession(c) == pc[c] \in {"connected", "statusOffline", "closed"}

C5_Bound ==
    \A c \in Conns :
        /\ HasSessionState(c) =>
              /\ IsSession(c)
              /\ reject[c] = ""
              /\ Cardinality({u \in Users : user[c] = UserDoc(u)}) = 1
        /\ IsSession(c) => handlers[c] # {} /\ hist[c] # NoHist
        /\ \A s \in sends : s.conn = c => s.message.userId = user[c]._id

C5_Binding ==
    \A c \in Conns :
        user'[c] # user[c] =>
            /\ pc[c] = "new" /\ pc'[c] = "statusUpdate"
            /\ user[c] = NoUser
            /\ ~HasSessionState(c)

C5_SessionStart ==
    \A c \in Conns :
        (IsSession(c)' /\ ~IsSession(c)) => pc[c] = "next" /\ reject[c] = ""

C5_OneUser == [](C5_Bound) /\ [][C5_Binding /\ C5_SessionStart]_vars

\* C5 witness: a session of alice with listeners and a save pending, next to
\* a connection refused because its token names no user.
C5_Witness ==
    \E c \in Connected, d \in Conns :
        /\ user[c] = UserDoc("u1")
        /\ \E s \in sends : s.conn = c /\ s.st = "save"
        /\ "message:send" \in handlers[c]
        /\ reject[d] = "User not found"
        /\ ~HasSessionState(d)

\* C6: the step that completes socketAuth's update sets the bound user's status
\* to online and nothing else in the directory, and a connection reaches next()
\* (and so becomes a session) only through that step; the disconnect of a
\* session takes the current time, and the step that completes its update sets
\* the bound user's status to offline and last-seen to that time, whatever was
\* sent in between.
C6_Online(c) ==
    socketAuth_statusUpdate(c, TRUE)
    => /\ status' = [status EXCEPT ![user[c]._id] = "online"]
       /\ lastSeen' = lastSeen
       /\ pc'[c] = "next"

C6_Accepted(c) ==
    (pc'[c] = "next" /\ pc[c] # "next")
    => /\ pc[c] = "statusUpdate"
       /\ status'[user[c]._id] = "online"

C6_Disconnect(c) ==
    onDisconnect(c)
    => /\ pc'[c] = "statusOffline"
       /\ discAt'[c] = now
       /\ userVars' = userVars

C6_Offline(c) ==
    onDisconnect_statusUpdate(c, TRUE)
    => /\ status' = [status EXCEPT ![user[c]._id] = "offline"]
       /\ lastSeen' = [lastSeen EXCEPT ![user[c]._id] = discAt[c]]
       /\ pc'[c] = "closed"

C6_Pending ==
    \A c \in Conns :
        /\ pc[c] = "statusOffline" => StartTime <= discAt[c] /\ discAt[c] <= now
        /\ pc[c] = "connected" => open[c]

C6_Step ==
    pc' # pc => \A c \in Conns :
        C6_Online(c) /\ C6_Accepted(c) /\ C6_Disconnect(c) /\ C6_Offline(c)

C6_Presence == [](C6_Pending) /\ [][C6_Step]_vars

\* C6 witness: a session that stored a message has disconnected after the
\* clock moved; its user is offline and was last seen at the disconnect.
C6_Witness ==
    \E c \in Conns :
        /\ pc[c] = "closed"
        /\ status[user[c]._id] = "offline"
        /\ lastSeen[user[c]._id] = StartTime + 1
        /\ now = StartTime + 1
        /\ \E i \in 1..Len(store) : store[i].userId = user[c]._id

\* C7: the history call of a connection starts in the step that makes it a
\* session and at no other time, and no message:send or typing event starts or
\* advances one; it ends with one response, a message:history batch of at most
\* 50 entries in ascending send time or the error 'Failed to load message
\* history', delivered to that session and to no other; a connected session
\* whose call has ended holds exactly one response, any other connection none.
IsHistoryResponse(ev) ==
    \/ ev.event = "message:history"
    \/ ev = ErrorEvent("Failed to load message history")

HistoryResponses(c) == {k \in 1..Len(inbox[c]) : IsHistoryResponse(inbox[c][k])}

Ascending(batch) ==
    \A i, j \in 1..Len(batch) : i < j => batch[i].timestamp <= batch[j].timestamp

C7_IsBatch(batch) == Len(batch) <= HistoryLimit /\ Ascending(batch)

C7_OneResponse ==
    \A c \in Conns :
        /\ Cardinality(HistoryResponses(c)) =
              IF pc[c] = "connected" /\ hist[c].st = "done" THEN 1 ELSE 0
        /\ \A k \in Received(c, "message:history") : C7_IsBatch(inbox[c][k].data)
        /\ C7_IsBatch(hist[c].batch)
        /\ IsSession(c) <=> hist[c] # NoHist

C7_Call(c) ==
    /\ hist'[c] # hist[c] =>
          \/ /\ hist[c] = NoHist /\ hist'[c].st = "find"
             /\ pc[c] = "next" /\ pc'[c] = "connected"
          \/ hist[c].st = "find" /\ hist'[c].st \in {"found", "failed"} /\ inbox' = inbox
          \/ /\ hist[c].st \in {"found", "failed"} /\ hist'[c].st = "done"
             /\ \A d \in Conns \ {c} : Silent(d)
             /\ IF pc[c] = "connected"
                  THEN /\ Len(inbox'[c]) = Len(inbox[c]) + 1
                       /\ SubSeq(inbox'[c], 1, Len(inbox[c])) = inbox[c]
                       /\ IsHistoryResponse(inbox'[c][Len(inbox'[c])])
                  ELSE Silent(c)
    /\ (pc[c] = "next" /\ pc'[c] = "connected") => hist'[c].st = "find"
    /\ (nSends' # nSends \/ nTyping' # nTyping) => hist' = hist

C7_History == [](C7_OneResponse) /\ [][\A c \in Conns : C7_Call(c)]_vars

\* C7 witness: on a collection of 51 messages, one session holds a batch of
\* 50 entries and another the error of a failed query, one response each.
C7_Witness ==
    \E c, d \in Connected :
        /\ Len(store) = HistoryLimit + 1
        /\ Cardinality(HistoryResponses(c)) = 1
        /\ \E k \in Received(c, "message:history") :
              Len(inbox[c][k].data) = HistoryLimit
        /\ Cardinality(HistoryResponses(d)) = 1
        /\ ReceivedError(d, "Failed to load message history") # {}
        /\ Received(d, "message:history") = {}

\* C8: the batch a history query finds holds the most recent messages of the
\* collection: as many as the collection has, up to 50, and no message left
\* out was sent later than one that is in it.
C8_Found(c) ==
    (hist[c].st = "find" /\ hist'[c].st = "found")
    => LET batch == hist'[c].batch
           inBatch(i) == \E k \in 1..Len(batch) : batch[k]._id = store[i]._id
       IN  /\ Len(batch) = IF Len(store) < HistoryLimit THEN Len(store) ELSE HistoryLimit
           /\ \A i \in 1..Len(store) : ~inBatch(i) =>
                 \A k \in 1..Len(batch) : store[i].timestamp <= batch[k].timestamp

C8_MostRecent == [][\A c \in Conns : C8_Found(c)]_vars

\* C9: the 1000-character limit of message:send is taken on the trimmed
\* content: a string whose trimmed length is between 1 and 1000 starts a save
\* and draws no error, whatever its untrimmed length; a string whose trimmed
\* length exceeds 1000 is refused with the length error.
C9_Send(c, data) ==
    IsString(data) /\ handleMessageSend(c, data)
    => LET n == StrLen(Trim(data.content.runs)) IN
       /\ (0 < n /\ n <= MaxContentLength) =>
              /\ Cardinality(sends' \ sends) = 1
              /\ inbox' = inbox
       /\ n > MaxContentLength =>
              /\ sends' = sends
              /\ Delivered(c, ErrorEvent("Message content cannot exceed 1000 characters"))

C9_TrimmedLimit ==
    [][nSends' # nSends => \A c \in Conns, data \in Payloads : C9_Send(c, data)]_vars

\* C10: a user:typing:start (isTyping TRUE) or user:typing:stop (FALSE) of a
\* session delivers one user:typing event carrying the session's user id,
\* username and isTyping to every other connected session, and nothing to the
\* session itself or to any connection that is not connected; the Message and
\* User collections are unchanged.
C10_Typing(c, isTyping) ==
    handleTypingIndicator(c, isTyping)
    => /\ \A d \in Conns :
             IF d # c /\ pc[d] = "connected"
               THEN Delivered(d, [event |-> "user:typing",
                                  data  |-> [userId   |-> user[c]._id,
                                             username |-> user[c].username,
                                             isTyping |-> isTyping]])
               ELSE Silent(d)
       /\ store' = store
       /\ status' = status
       /\ lastSeen' = lastSeen

C10_TypingFanout ==
    [][nTyping' # nTyping =>
          \A c \in Conns, isTyping \in BOOLEAN : C10_Typing(c, isTyping)]_vars

\* C10 witness: bob's session holds alice's typing start, alice's own session
\* holds no typing event.
C10_Witness ==
    \E c, d \in Connected :
        /\ user[c] = UserDoc("u1") /\ user[d] = UserDoc("u2")
        /\ Received(c, "user:typing") = {}
        /\ Cardinality(Received(d, "user:typing")) = 1
        /\ \A k \in Received(d, "user:typing") :
              inbox[d][k].data = [userId |-> "u1", username |-> "alice", isTyping |-> TRUE]

\* C11: a message:send of a session is processed only when the history call
\* of that session has ended, that is, after its message:history or its
\* history error was emitted.
C11_Send(c, data) == handleMessageSend(c, data) => hist[c].st = "done"

C11_ReplayFirst ==
    [][nSends' # nSends => \A c \in Conns, data \in Payloads : C11_Send(c, data)]_vars

\* C12: no message of another user that is in the message:history batch a
\* session holds is also in a message:new event that session holds.
C12_InBatch(c, id) ==
    \E k \in Received(c, "message:history") :
        \E i \in 1..Len(inbox[c][k].data) : inbox[c][k].data[i]._id = id

C12_NoDuplicate ==
    \A c \in Conns : \A k \in Received(c, "message:new") :
        inbox[c][k].data.userId # user[c]._id => ~C12_InBatch(c, inbox[c][k].data._id)

\* C13: the disconnect update of a session sets its user's status to offline
\* whether or not another session of that user is connected, and a status
\* that is offline changes only in the step that completes the online update
\* of a socketAuth for that user.
C13_Offline(c) ==
    onDisconnect_statusUpdate(c, TRUE) => status'[user[c]._id] = "offline"

C13_StaysOffline(u) ==
    (status[u] = "offline" /\ status'[u] # "offline")
    => /\ status'[u] = "online"
       /\ \E c \in Conns :
             /\ user[c]._id = u
             /\ pc[c] = "statusUpdate" /\ pc'[c] = "next"

C13_Step ==
    /\ pc' # pc => \A c \in Conns : C13_Offline(c)
    /\ \A u \in Users : C13_StaysOffline(u)

C13_LastWriterWins == [][C13_Step]_vars

\* C13 witness: alice has one session connected and one closed, and is
\* stored as offline.
C13_Witness ==
    \E c \in Connected, d \in Conns :
        /\ user[c] = UserDoc("u1") /\ user[d] = UserDoc("u1")
        /\ pc[d] = "closed"
        /\ status["u1"] = "offline"

\* C14: a connection attempt is refused unless its token is valid, names a
\* user and both store operations succeed; the reason of a refusal is
\* 'Authentication token is required' for an absent token, 'Token expired'
\* for an expired one, 'Invalid token' for a malformed or badly signed one,
\* 'User not found' for a valid token whose subject the directory does not
\* hold, and 'Authentication failed' for a failed lookup or update; a refused
\* connection has exactly one of these reasons, which never changes, never
\* leaves the refused state and has no session state.
RejectionReasons ==
    {"Authentication token is required", "Token expired", "Invalid token",
     "User not found", "Authentication failed"}

C14_ReasonFor(tok, found) ==
    CASE tok.kind = "missing"                -> "Authentication token is required"
      [] tok.kind = "expired"                -> "Token expired"
      [] tok.kind \in {"malformed", "badsig"} -> "Invalid token"
      [] tok.kind = "valid" /\ found /\ tok.sub = "ghost" -> "User not found"
      [] OTHER                               -> "Authentication failed"

C14_Refusal(c, tok, found) ==
    socketAuth(c, tok, found)
    => IF tok.kind = "valid" /\ found /\ tok.sub \in Users
         THEN pc'[c] = "statusUpdate" /\ reject'[c] = ""
         ELSE pc'[c] = "rejected" /\ reject'[c] = C14_ReasonFor(tok, found)

C14_UpdateFailed(c) ==
    socketAuth_statusUpdate(c, FALSE)
    => pc'[c] = "rejected" /\ reject'[c] = "Authentication failed"

C14_Final(c) ==
    reject[c] # "" => reject'[c] = reject[c] /\ pc'[c] = "rejected"

C14_Refused ==
    \A c \in Conns :
        /\ reject[c] \in RejectionReasons \cup {""}
        /\ pc[c] = "rejected" <=> reject[c] # ""
        /\ pc[c] = "rejected" => ~HasSessionState(c) /\ ~IsSession(c)

C14_Step ==
    /\ pc' # pc => \A c \in Conns :
          /\ C14_UpdateFailed(c)
          /\ \A tok \in Tokens, found \in BOOLEAN : C14_Refusal(c, tok, found)
    /\ \A c \in Conns : C14_Final(c)

C14_Rejection == [](C14_Refused) /\ [][C14_Step]_vars

\* C14 witness: one attempt refused for an expired token and one because the
\* status update failed; neither is a session and nobody is online.
C14_Witness ==
    \E c, d \in Conns :
        /\ reject[c] = "Token expired"
        /\ reject[d] = "Authentication failed" /\ user[d] # NoUser
        /\ ~HasSessionState(c) /\ ~HasSessionState(d)
        /\ \A u \in Users : status[u] = "offline"

\* C15: a request whose Authorization header is absent, does not start with
\* 'Bearer', or carries a token that is malformed, badly signed or expired is
\* answered 401 by protect's first step and its handler is never invoked; the
\* handler is invoked only for a request whose header is 'Bearer' followed by
\* a token that verifies, and never for a request that was answered 401.
C15_Verifies(h) ==
    /\ h.present
    /\ Len(h.words) >= 2
    /\ h.words[1].text = "Bearer" \/ h.words[1].text = "BearerToken"
    /\ h.words[2].text = "jwt"
    /\ h.words[2].tok.kind = "valid"

C15_Unauthorized(h) ==
    \/ ~h.present
    \/ h.words = <<>>
    \/ h.words[1].text \notin {"Bearer", "BearerToken"}
    \/ /\ Len(h.words) >= 2
       /\ h.words[2].text = "invalid-token"
            \/ (h.words[2].text = "jwt" /\ h.words[2].tok.kind # "valid")

C15_Protected ==
    \A r \in Reqs :
        /\ http[r].handler => C15_Verifies(http[r].header) /\ http[r].res = NoResponse
        /\ (http[r].st # "new" /\ C15_Unauthorized(http[r].header)) =>
              /\ http[r].res.code = 401
              /\ http[r].st = "done"
              /\ ~http[r].handler
        /\ http[r].res.code = 401 => ~http[r].handler

C15_Final ==
    \A r \in Reqs : http[r].st = "done" => http'[r] = http[r]

C15_Protect == [](C15_Protected) /\ [][C15_Final]_vars

\* C15 witness: one request with alice's valid token has reached its handler,
\* one with an expired token was answered 401.
C15_Witness ==
    \E r, q \in Reqs :
        /\ http[r].handler /\ http[r].user = UserDoc("u1")
        /\ http[q].header.words = <<Word("Bearer"), JwtWord([kind |-> "expired", sub |-> "u1"])>>
        /\ http[q].res = [code |-> 401, message |-> "Not authorized, token failed"]
        /\ ~http[q].handler

\* C16: a call of logout() that finds a token in storage makes exactly one
\* request to the logout API, with that token as Bearer credential, and
\* leaves the storage as it is until the request settles; when the request
\* settles, fulfilled or rejected, the storage is emptied and no further
\* request is made; a call that finds nothing in storage makes no request
\* and leaves the storage as it is.
C16_IsToken(item) == item.kind \in {"valid", "expired", "malformed", "badsig"}

C16_Call(k) ==
    logout(k)
    => /\ storage' = storage
       /\ C16_IsToken(storage) =>
             /\ Len(fetches') = Len(fetches) + 1
             /\ SubSeq(fetches', 1, Len(fetches)) = fetches
             /\ fetches'[Len(fetches')].url = "/api/auth/logout"
             /\ fetches'[Len(fetches')].authorization.words =
                    <<Word("Bearer"), JwtWord(storage)>>
             /\ logouts'[k].st = "fetch"
       /\ storage = NoItem => fetches' = fetches /\ logouts'[k].st = "done"

C16_Settle(k) ==
    \A ok \in BOOLEAN :
        logout_settle(k, ok)
        => /\ storage' = NoItem
           /\ fetches' = fetches
           /\ logouts'[k].st = "done"

C16_Requests ==
    \A k \in LogoutIds :
        Cardinality({i \in 1..Len(fetches) : fetches[i].call = k}) =
            IF C16_IsToken(logouts[k].token) THEN 1 ELSE 0

C16_Step ==
    logouts' # logouts => \A k \in LogoutIds : C16_Call(k) /\ C16_Settle(k)

C16_Logout == [](C16_Requests) /\ [][C16_Step]_vars

\* C16 witness: the first logout() found bob's token and its request has
\* settled, the second found nothing; one request was made and the storage
\* is empty.
C16_Witness ==
    /\ logouts[1] = [st |-> "done", token |-> [kind |-> "valid", sub |-> "u2"]]
    /\ logouts[2] = [st |-> "done", token |-> NoItem]
    /\ Len(fetches) = 1
    /\ storage = NoItem

\* C17: in every context value AuthProvider renders, isAuthenticated is TRUE
\* exactly when user is not null; login(token, userData) stores the token and
\* sets the user, so that the next render is authenticated with that user;
\* logout() removes the token and sets the user to null, so that the next
\* render is unauthenticated.
C17_Consistent == ctx.isAuthenticated <=> ctx.user # NullUser

C17_Login ==
    \A token \in ValidTokens, u \in Users :
        AuthProvider_login(token, UserDoc(u))
        => storage' = token /\ auth'.user = UserDoc(u)

C17_Logout ==
    AuthProvider_logout => storage' = NoItem /\ auth'.user = NullUser

C17_Render ==
    ctx' # ctx
    => /\ ctx'.user = auth.user
       /\ ctx'.isAuthenticated = (auth.user # NullUser)
       /\ auth' = auth

C17_Pending ==
    (ctx.user # auth.user) => ENABLED AuthProvider_render

C17_AuthState ==
    /\ [](C17_Consistent /\ C17_Pending)
    /\ [][(nAuth' # nAuth => C17_Login /\ C17_Logout) /\ C17_Render]_vars

\* C17 witness: after one login as alice the provider has rendered alice,
\* authenticated, and her token is in the storage.
C17_Witness ==
    /\ nAuth = 1
    /\ ctx = [user |-> UserDoc("u1"), isAuthenticated |-> TRUE, isLoading |-> FALSE]
    /\ auth.user = UserDoc("u1")
    /\ storage = [kind |-> "valid", sub |-> "u1"]
    /\ mounted

\* C18: when the sender of a message is no longer connected, the save still
\* adds the record to the store, and the handler still delivers message:new
\* for it to every session connected at that moment and to nobody else, the
\* sender included; no step removes or changes a stored record.
C18_Write(s) ==
    (s.st = "save" /\ pc[s.conn] # "connected" /\ handleMessageSend_save(s, TRUE))
    => /\ Len(store') = Len(store) + 1
       /\ store'[Len(store')]._id = s.message._id
       /\ \E r \in sends' : r.message._id = s.message._id /\ r.st = "saved"

C18_Broadcast(s) ==
    (s.st = "saved" /\ pc[s.conn] # "connected" /\ handleMessageSend_emit(s))
    => /\ Silent(s.conn)
       /\ \A d \in Conns :
             IF pc[d] = "connected"
               THEN /\ Len(inbox'[d]) = Len(inbox[d]) + 1
                    /\ inbox'[d][Len(inbox'[d])].event = "message:new"
                    /\ inbox'[d][Len(inbox'[d])].data._id = s.message._id
               ELSE Silent(d)

C18_Kept ==
    Len(store') >= Len(store) /\ SubSeq(store', 1, Len(store)) = store

C18_Step ==
    /\ sends' # sends => \A s \in sends : C18_Write(s) /\ C18_Broadcast(s)
    /\ C18_Kept

C18_SenderGone == [][C18_Step]_vars

\* C18 witness: the record of a message is in the store, its handler has not
\* resumed yet, its sender has disconnected and another session is connected.
C18_Witness ==
    \E s \in sends : \E d \in Connected :
        /\ s.st = "saved"
        /\ pc[s.conn] \in {"statusOffline", "closed"}
        /\ Stored(s.message._id) # {}
        /\ inbox[s.conn] = <<>>
        /\ ReceivedNew(d, s.message._id) = {}

\* C19: a message:send refused by validation changes nothing but the
\* sender's inbox: the Message and User collections, every pending save,
\* every history call and every connection (state, bound user, listeners)
\* are as before; the session is still connected with its message:send
\* listener, and a connected session can always have a valid send accepted.
C19_Refused(c, data) ==
    /\ IsString(data)
    /\ \/ IsTrimOf(<<>>, data.content.runs)
       \/ StrLen(data.content.runs) > MaxContentLength
    /\ handleMessageSend(c, data)
    => /\ store' = store
       /\ status' = status /\ lastSeen' = lastSeen
       /\ sends' = sends /\ hist' = hist /\ nextId' = nextId
       /\ pc' = pc /\ user' = user /\ handlers' = handlers /\ open' = open
       /\ pc'[c] = "connected" /\ "message:send" \in handlers'[c]
       /\ Received(c, "message:error")' # Received(c, "message:error")

C19_Retry ==
    \A c \in Connected :
        ENABLED handleMessageSend(c, Payload(Str(<<Run("a", 2)>>)))

C19_ValidationError ==
    /\ [](C19_Retry)
    /\ [][nSends' # nSends =>
            \A c \in Conns, data \in Payloads \cup ChatPayloads : C19_Refused(c, data)]_vars

\* C19 witness: a session was refused a send, then sent a valid message, and
\* holds the error followed directly by the message:new of its own message,
\* which is in the store.
C19_Witness ==
    \E c \in Connected : \E k \in 1..Len(inbox[c]) :
        /\ k < Len(inbox[c])
        /\ inbox[c][k].event = "message:error"
        /\ inbox[c][k].data.message \in
              {"Message content is required",
               "Message content cannot exceed 1000 characters"}
        /\ inbox[c][k + 1].event = "message:new"
        /\ inbox[c][k + 1].data.userId = user[c]._id
        /\ Stored(inbox[c][k + 1].data._id) # {}
        /\ nSends = 2
        /\ \A d \in Connected : user[d] = user[c] => d = c

\* C20: when the history query of a session has failed, the handler
\* delivers the one error 'Failed to load message history' to that session
\* alone and changes nothing else; the call is then over for good; a session
\* that holds this error holds it once, holds no message:history, is
\* connected, and its message:send and typing events are accepted.
HistoryFailed == ErrorEvent("Failed to load message history")

C20_Failure(c) ==
    (hist[c].st = "failed" /\ handleLoadMessages_emit(c))
    => /\ IF pc[c] = "connected" THEN Delivered(c, HistoryFailed) ELSE Silent(c)
       /\ \A d \in Conns \ {c} : Silent(d)
       /\ hist'[c].st = "done"
       /\ pc' = pc /\ handlers' = handlers /\ user' = user
       /\ store' = store /\ sends' = sends

C20_NoRetry(c) ==
    /\ hist[c].st = "failed" => hist'[c].st \in {"failed", "done"}
    /\ hist[c].st = "done" => hist'[c] = hist[c]

C20_Active ==
    \A c \in Conns :
        ReceivedError(c, "Failed to load message history") # {} =>
            /\ Cardinality(ReceivedError(c, "Failed to load message history")) = 1
            /\ Received(c, "message:history") = {}
            /\ hist[c].st = "done"
            /\ pc[c] = "connected"
            /\ ENABLED handleMessageSend(c, Payload(Str(<<Run("a", 2)>>)))
            /\ ENABLED handleTypingIndicator(c, TRUE)

C20_HistoryFailure ==
    /\ [](C20_Active)
    /\ [][\A c \in Conns : C20_Failure(c) /\ C20_NoRetry(c)]_vars

\* C20 witness: alice's session got the history error first, then the
\* message:new of her own message; bob's session holds her typing event and
\* the same message:new.
C20_Witness ==
    \E c, d \in Connected :
        /\ user[c] = UserDoc("u1") /\ user[d] = UserDoc("u2")
        /\ Len(inbox[c]) = 2
        /\ inbox[c][1] = HistoryFailed
        /\ inbox[c][2].event = "message:new" /\ inbox[c][2].data.userId = "u1"
        /\ Received(d, "user:typing") # {}
        /\ ReceivedNew(d, inbox[c][2].data._id) # {}

\* C21: the document a send builds carries the id and username of the user
\* bound to the sending session; every stored record carries the id and
\* username of one user; every message:new payload a session holds equals a
\* stored record in _id, userId, username, content, timestamp and createdAt;
\* and every step leaves the records already stored as they are, in place.
C21_Fields(rec) ==
    <<rec._id, rec.userId, rec.username, rec.content, rec.timestamp, rec.createdAt>>

C21_Author(c) ==
    \A s \in sends' \ sends :
        s.conn = c =>
            /\ s.message.userId = user[c]._id
            /\ s.message.username = user[c].username

C21_Records ==
    /\ \A i \in 1..Len(store) :
          \E u \in Users :
              store[i].userId = u /\ store[i].username = Username(u)
    /\ \A c \in Conns : \A k \in Received(c, "message:new") :
          \E i \in 1..Len(store) :
              C21_Fields(store[i]) = C21_Fields(inbox[c][k].data)
    /\ \A s \in sends : s.st = "saved" =>
          \E i \in 1..Len(store) :
              /\ store[i]._id = s.message._id
              /\ store[i].userId = s.message.userId
              /\ store[i].username = s.message.username
              /\ store[i].timestamp = s.message.timestamp
              /\ store[i].createdAt = s.createdAt

C21_Grows ==
    Len(store') >= Len(store) /\ \A i \in 1..Len(store) : store'[i] = store[i]

C21_Message ==
    /\ [](C21_Records)
    /\ [][(\A c \in Conns : C21_Author(c)) /\ C21_Grows]_vars

\* C21 witness: alice's message, sent one millisecond before it was saved,
\* is stored under her id and name, and bob's session holds a message:new
\* equal to the record.
C21_Witness ==
    \E c, d \in Connected : \E k \in Received(d, "message:new") :
        /\ user[c] = UserDoc("u1") /\ user[d] = UserDoc("u2")
        /\ Len(store) = 1
        /\ store[1].userId = "u1" /\ store[1].username = "alice"
        /\ store[1].createdAt = store[1].timestamp + 1
        /\ C21_Fields(inbox[d][k].data) = C21_Fields(store[1])

\* C22: a call of connectDB with no URI fails with 'MongoDB URI is required'
\* and leaves the connection as it is; a call made while the connection is
\* open to the same URI returns that connection at once; a call made while
\* it is open to another URI starts by closing it; and a call that returns,
\* returns a connection to the URI it was given.
C22_Call(k, uri) ==
    connectDB(k, uri)
    => /\ UriMissing(uri) =>
             /\ dbCalls'[k].error = "MongoDB URI is required"
             /\ dbCalls'[k].st = "rejected"
             /\ db' = db
       /\ (~UriMissing(uri) /\ db.readyState = IsConnected /\ db.uri = uri) =>
             /\ dbCalls'[k].st = "done" /\ dbCalls'[k].result = uri
             /\ db' = db
       /\ (~UriMissing(uri) /\ db.readyState = IsConnected /\ db.uri # uri) =>
             /\ dbCalls'[k].st = "close"
             /\ db'.readyState = Disconnecting

C22_Returned ==
    \A k \in DbCallIds : dbCalls[k].st = "done" => dbCalls[k].result = dbCalls[k].uri

C22_ConnectDB ==
    /\ [](C22_Returned)
    /\ [][\A k \in DbCallIds, uri \in Uris : C22_Call(k, uri)]_vars

\* C23: when AuthProvider initializes with a stored token that fails
\* validateToken, the token is removed from storage, the user is null, the
\* state is unauthenticated and isLoading is false.
C23_Invalid(item) == item # NoItem /\ ~validateToken(item)

C23_Init ==
    (AuthProvider_useEffect /\ C23_Invalid(storage))
    => /\ storage' = NoItem
       /\ auth'.user = NullUser
       /\ ~ContextValue(auth').isAuthenticated
       /\ ~auth'.isLoading

C23_ClearInvalid == [][C23_Init]_vars

\* C24: every message:send handled for an active session, whatever its
\* payload, is answered exactly once: the handler either emits one
\* message:error to the sender at once, or starts one persist whose outcome
\* is one message:new broadcast or one message:error to the sender.
C24_Handled(c, data) ==
    handleMessageSend(c, data)
    => \/ /\ Len(inbox'[c]) = Len(inbox[c]) + 1
          /\ inbox'[c] = Append(inbox[c], inbox'[c][Len(inbox'[c])])
          /\ inbox'[c][Len(inbox'[c])].event = "message:error"
          /\ \A d \in Conns \ {c} : inbox'[d] = inbox[d]
          /\ sends' = sends
       \/ /\ inbox' = inbox
          /\ \E s \in sends' \ sends :
                /\ sends' = sends \cup {s}
                /\ s.conn = c /\ s.st = "save"

C24_Settled(s) ==
    handleMessageSend_emit(s)
    => /\ sends' = sends \ {s}
       /\ \/ \A c \in Connected :
                inbox'[c] = Append(inbox[c], NewEvent(Persisted(s.message, s.createdAt)))
          \/ /\ s.conn \in Connected
             /\ inbox'[s.conn] = Append(inbox[s.conn], ErrorEvent("Failed to send message"))
             /\ \A d \in Conns \ {s.conn} : inbox'[d] = inbox[d]
          \/ /\ s.conn \notin Connected
             /\ s.st = "failed"
             /\ inbox' = inbox

C24_OneResponse ==
    [][/\ nSends' # nSends =>
            \A c \in Conns, data \in Payloads \cup ChatPayloads : C24_Handled(c, data)
       /\ sends' # sends => \A s \in sends : C24_Settled(s)]_vars

\* C25: for a session that is connected and whose history query succeeded
\* while the store held at most 50 messages, every message in the store is in
\* the batch of its message:history, or has reached it as message:new, or its
\* broadcast is still to be made; the query's snapshot holds the whole store
\* and every broadcast reaches every session whose socket is in the namespace.
C25_InBatch(batch, id) == \E i \in 1..Len(batch) : batch[i]._id = id

C25_InHistory(c, id) ==
    \/ hist[c].st = "found" /\ C25_InBatch(hist[c].batch, id)
    \/ \E k \in Received(c, "message:history") : C25_InBatch(inbox[c][k].data, id)

C25_BroadcastPending(id) ==
    \E s \in sends : s.st = "saved" /\ s.message._id = id

C25_QuerySucceeded(c) ==
    \/ hist[c].st = "found"
    \/ hist[c].st = "done" /\ Received(c, "message:history") # {}

C25_Covered ==
    \A c \in Connected :
        (C25_QuerySucceeded(c) /\ Len(store) <= HistoryLimit)
        => \A i \in 1..Len(store) :
              \/ C25_InHistory(c, store[i]._id)
              \/ ReceivedNew(c, store[i]._id) # {}
              \/ C25_BroadcastPending(store[i]._id)

C25_Snapshot(c, tie) ==
    (handleLoadMessages_find(c, TRUE, tie) /\ Len(store) <= HistoryLimit)
    => \A i \in 1..Len(store) : C25_InBatch(hist'[c].batch, store[i]._id)

C25_NoLoss ==
    /\ [](C25_Covered)
    /\ [][hist' # hist =>
            \A c \in Conns, tie \in TieOrders : C25_Snapshot(c, tie)]_vars

\* C25 witness: a session holds a message:new followed by a message:history
\* whose batch does not have that message, which is in the store: the message
\* was saved and broadcast between the session's query and its answer.
C25_Witness ==
    \E c \in Connected :
        /\ Len(inbox[c]) = 2
        /\ inbox[c][1].event = "message:new"
        /\ inbox[c][2].event = "message:history"
        /\ ~C25_InBatch(inbox[c][2].data, inbox[c][1].data._id)
        /\ Stored(inbox[c][1].data._id) # {}
        /\ C25_QuerySucceeded(c)

\* C26: when a session has received message:new for m1 before message:new
\* for m2, every message:history batch computed after both broadcasts that
\* holds both messages lists m1 before m2.
C26_Position(batch, id) == CHOOSE i \in 1..Len(batch) : batch[i]._id = id

C26_BroadcastBefore(c, id1, id2) ==
    \E k1 \in ReceivedNew(c, id1), k2 \in ReceivedNew(c, id2) : k1 < k2

\* Session d joined after both broadcasts: it holds neither message:new.
C26_LaterBatches(d, id1, id2) ==
    IF ReceivedNew(d, id1) = {} /\ ReceivedNew(d, id2) = {}
      THEN {inbox[d][k].data : k \in
              {k \in Received(d, "message:history") :
                  /\ C25_InBatch(inbox[d][k].data, id1)
                  /\ C25_InBatch(inbox[d][k].data, id2)}}
      ELSE {}

C26_SameOrder ==
    \A c \in Connected, d \in Connected :
        \A id1 \in 1..(nextId - 1), id2 \in 1..(nextId - 1) :
            C26_BroadcastBefore(c, id1, id2)
            => \A batch \in C26_LaterBatches(d, id1, id2) :
                  C26_Position(batch, id1) < C26_Position(batch, id2)

\* C27: when no connection of a user is being authenticated, is live, or
\* has its disconnect write pending, and no presence write has failed, the
\* user's stored status is not online.
C27_InProgress(u) ==
    {c \in Conns : /\ user[c] # NoUser
                   /\ user[c]._id = u
                   /\ pc[c] \in {"statusUpdate", "next", "connected", "statusOffline"}}

C27_OfflineWhenGone ==
    \A u \in Users : C27_InProgress(u) = {} => status[u] # "online"

\* C28: the message list of the ChatRoom component holds every message:new
\* its socket has received, whatever message:history arrived after it.
C28_Listed(list, message) == \E i \in 1..Len(list) : list[i] = message

C28_KeepsNew ==
    \A c \in Connected : \A k \in Received(c, "message:new") :
        C28_Listed(ChatRoom_messages(inbox[c]), inbox[c][k].data)

\* C29: socketAuth calls next exactly once for every connection attempt:
\* never before the attempt is settled, once with an Error when it refuses
\* the connection, and once without an Error when authentication succeeded,
\* in the step in which the online status write has completed; and never
\* again afterwards.
C29_Settled(c) == pc[c] \notin {"new", "statusUpdate"}

C29_Once ==
    \A c \in Conns :
        /\ ~C29_Settled(c) => nextCalls[c] = <<>>
        /\ C29_Settled(c) => Len(nextCalls[c]) = 1
        /\ pc[c] = "rejected" =>
              nextCalls[c] = <<NextError(reject[c])>> /\ reject[c] # ""
        /\ (C29_Settled(c) /\ pc[c] # "rejected") => nextCalls[c] = <<NoError>>

C29_Authenticate(c, tok, found) ==
    socketAuth(c, tok, found)
    => \/ nextCalls'[c] = <<>> /\ pc'[c] = "statusUpdate"
       \/ /\ Len(nextCalls'[c]) = 1 /\ nextCalls'[c][1].error
          /\ nextCalls'[c][1].message \in RejectionReasons

C29_StatusWrite(c, ok) ==
    socketAuth_statusUpdate(c, ok)
    => IF ok THEN /\ nextCalls'[c] = <<NoError>>
                  /\ status'[user[c]._id] = "online"
             ELSE nextCalls'[c] = <<NextError("Authentication failed")>>

C29_Step ==
    /\ \A c \in Conns : nextCalls[c] # <<>> => nextCalls'[c] = nextCalls[c]
    /\ pc' # pc =>
          /\ \A c \in Conns, tok \in Tokens, found \in BOOLEAN :
                C29_Authenticate(c, tok, found)
          /\ \A c \in Conns, ok \in BOOLEAN : C29_StatusWrite(c, ok)

C29_NextOnce == [](C29_Once) /\ [][C29_Step]_vars

\* C29 witness: one connection was admitted and one was refused, and each
\* has exactly one call of next on record.
C29_Witness ==
    \E c \in Conns, d \in Conns :
        /\ pc[c] = "connected" /\ nextCalls[c] = <<NoError>>
        /\ status[user[c]._id] = "online"
        /\ pc[d] = "rejected" /\ nextCalls[d] = <<NextError(reject[d])>>

\* C30: protect hands a request to the protected handler only with the
\* user its token names: when the handler runs, req.user is an existing
\* user, never null; a request whose valid token names no user is answered
\* with an error status.
C30_Answered(r) == http[r].st = "done" /\ http[r].res.code >= 400

C30_UserExists ==
    \A r \in Reqs :
        /\ http[r].handler => http[r].user \in {UserDoc(u) : u \in Users}
        /\ (http[r].st \in {"handler", "done"} /\ http[r].decoded = "ghost")
              => C30_Answered(r) /\ ~http[r].handler

====
